---- MODULE Spec2Model ----
(***************************************************************************)
(* Model of the Ripple service-routing path.                               *)
(*                                                                         *)
(* ServiceBroker (core/main/src/broker/service_broker.rs) owns a bounded   *)
(* mailbox and one task that, for each request taken from the mailbox,     *)
(* clones the gateway sender under the services_gateway_api lock, builds a *)
(* ServiceRoutingRequest carrying a fresh oneshot sender, try_sends it to  *)
(* the gateway queue and awaits the oneshot receiver.  The gateway side    *)
(* (ssda_types::api_gateway_server) holds the oneshot senders and answers  *)
(* them, drops them, or goes away.                                         *)
(*                                                                         *)
(* Further parts, each with a specification of its own: the broker mailbox *)
(* as a bounded channel (SpecMailbox), the WebsocketAPIGatewayClient       *)
(* connect loop and message loop of ssda_types (SpecClient), the gateway's *)
(* method registry (SpecRegistry) and the provider RPC entry points of     *)
(* firebolt/handlers (SpecProvider).                                       *)
(***************************************************************************)
EXTENDS Integers, Sequences, FiniteSets, TLC

\* ---------------------------------------------------------------- bounds
NumBrokers == 2
MaxCallId == 2
MaxRequests == 2
GatewayQueueCap == 1
MaxDiscarded == 1
MaxSenders == 2
MaxAttempts == 4
MaxHandlers == 2
MaxFailures == 8
MaxConnects == 2
MaxInbound == 2
NumServices == 2
NumApps == 2
NumCapabilities == 2
MaxChallenges == 2
NumMethodNames == 2
MaxTicks == 2
TickMs == 15000

\* const DEFAULT_PROVIDER_RESPONSE_TIMEOUT_MS: u64 = 15000
DEFAULT_PROVIDER_RESPONSE_TIMEOUT_MS == 15000

\* let mut backoff = Duration::from_secs(1), and the reset after a connect
BackoffStartSecs == 1
\* std::cmp::min(backoff * 2, Duration::from_secs(60))
BackoffCapSecs == 60

\* capacity of the broker mailbox: mpsc::channel(BROKER_CHANNEL_BUFFER_SIZE);
\* the constant is imported from endpoint_broker
BROKER_CHANNEL_BUFFER_SIZE == 2

Brokers == 1..NumBrokers
CallIds == 1..MaxCallId
Seqs == 1..MaxRequests
Kinds == {"Success", "Error"}

\* ---------------------------------------------------------------- state
VARIABLES
    platform_state,   \* ServiceBroker.platform_state given to get_broker
    brokerState,      \* outcome of get_broker: "unbuilt", "built", "aborted"
    spawned,          \* number of tasks spawned by get_broker of broker b
    taskPc,           \* position of the task of broker b
    taskReq,          \* the request the task of broker b is working on
    mailbox,          \* mpsc channel of broker b (tx, tr)
    servicesLock,     \* holder of platform_state.services_gateway_api
    gatewayQueue,     \* the gateway's inbound mpsc queue
    gatewayOpen,      \* the gateway's receiver is alive
    held,             \* oneshot senders taken by the gateway, not yet used
    oneshot,          \* the oneshot channel of each dequeued request
    outputs,          \* per request, the outcomes delivered to the callback
    nextSeq,          \* identity of the next BrokerRequest
    enqueuedHist,     \* per broker, the requests in mailbox arrival order
    submittedHist,    \* per broker, the requests in try_send order
    discarded         \* replies discarded by the gateway (no pending sender)

brokerVars == <<platform_state, brokerState, spawned, taskPc, taskReq,
                mailbox, servicesLock, gatewayQueue, gatewayOpen, held,
                oneshot, outputs, nextSeq, enqueuedHist, submittedHist,
                discarded>>

\* the bounded mpsc channel of one broker, seen from its senders
VARIABLES
    chanQueue,        \* the requests buffered in the channel
    chanSenders,      \* number of BrokerSender clones handed out
    chanResult,       \* result of the last enqueue attempt
    chanAttempts      \* number of enqueue attempts made

chanVars == <<chanQueue, chanSenders, chanResult, chanAttempts>>

\* WebsocketAPIGatewayClient and the ServiceRequestHandler it drives
VARIABLES
    clientPc,         \* "new", "connect" (top of the connect loop), "connected"
    registration,     \* WebsocketAPIGatewayClient.registration
    backoff,          \* connect's backoff, in seconds
    delays,           \* the sleeps made since the last successful connect
    cameFrom,         \* how the loop got to its top: "start", "sleep", "disconnect"
    connections,      \* number of successful connect_async calls
    inbound,          \* the frames taken from rx on the current connection
    outbound,         \* the messages given to tx on the current connection
    callbacks,        \* the handler callbacks made on the current connection
    errorLog,         \* number of error! lines of the current connection
    onDisconnected    \* number of handler.on_disconnected() calls

clientVars == <<clientPc, registration, backoff, delays, cameFrom, connections,
                inbound, outbound, callbacks, errorLog, onDisconnected>>

\* the gateway's method registry
VARIABLES
    registry,         \* the (method, service) ownerships
    regRequest,       \* the last Register or Unregister handled
    regReply,         \* the reply to the last Register
    regRejected       \* the (method, service) claims refused so far

registryVars == <<registry, regRequest, regReply, regRejected>>

\* the provider broker and the RPC entry points in front of it
VARIABLES
    listeners,        \* the (capability, app) pairs that are Listening
    providerCall,     \* the last provider RPC handled, with its result
    providerEvents,   \* per app, the challenge events delivered to it
    pending,          \* the PendingChallenges
    challengeOutcome, \* per challenge, what its caller's channel was given
    nextChallenge,    \* the correlation id of the next challenge
    providerFocus     \* the focus directive of the last focus call, if sent

providerVars == <<listeners, providerCall, providerEvents, pending,
                  challengeOutcome, nextChallenge, providerFocus>>

\* the provider registrar: an RPC module and the calls made on the registrar
VARIABLES
    rpcModule,        \* per method name, the method type registered for it
    registrarCall,    \* the last registrar call and its arguments
    registrarResult   \* what the last registrar call returned

registrarVars == <<rpcModule, registrarCall, registrarResult>>

\* the callers behind the broker callback
VARIABLES
    callerGone,       \* the requests whose caller has given up
    deliveryErrors    \* number of error! lines of send_broker_response

deliveryVars == <<callerGone, deliveryErrors>>

\* the message types of ssda_types used on their own
VARIABLES
    conversions,      \* the ServiceRoutingResponse conversions made so far
    builderCalls,     \* the handlers given to add_handler, in call order
    builderHandlers,  \* ServiceRegistrationBuilder.firebolt_handlers
    builderState,     \* "ok", or "aborted" once add_handler hit todo!()
    built             \* what the last build() returned

typesVars == <<conversions, builderCalls, builderHandlers, builderState,
               built>>

vars == <<brokerVars, chanVars, clientVars, registryVars, providerVars,
          registrarVars, deliveryVars, typesVars>>

\* what a task step that delivers an outcome leaves alone outside the broker
notTaskVars == <<chanVars, clientVars, registryVars, providerVars,
                 registrarVars, callerGone, typesVars>>
notBrokerVars == <<chanVars, clientVars, registryVars, providerVars,
                   registrarVars, deliveryVars, typesVars>>
notChanVars == <<brokerVars, clientVars, registryVars, providerVars,
                 registrarVars, deliveryVars, typesVars>>
notClientVars == <<brokerVars, chanVars, registryVars, providerVars,
                   registrarVars, deliveryVars, typesVars>>
notRegistryVars == <<brokerVars, chanVars, clientVars, providerVars,
                     registrarVars, deliveryVars, typesVars>>
notProviderVars == <<brokerVars, chanVars, clientVars, registryVars,
                     registrarVars, deliveryVars, typesVars>>
notRegistrarVars == <<brokerVars, chanVars, clientVars, registryVars,
                      providerVars, deliveryVars, typesVars>>
notTypesVars == <<brokerVars, chanVars, clientVars, registryVars,
                  providerVars, registrarVars, deliveryVars>>

NoReq == [call_id |-> 0, seq |-> 0]
NoResp == [kind |-> "none", request_id |-> 0, val |-> 0]
NoChan == [st |-> "none", request_id |-> 0, resp |-> NoResp]

\* BrokerRequest: rpc.ctx.call_id plus the identity of the request object
BrokerRequest(c, n) == [call_id |-> c, seq |-> n]

\* a request id other than c
OtherId(c) == (c % MaxCallId) + 1

\* the ServiceRoutingResponses (Success or Error) that can be sent on the
\* sender h: the reply echoes the request id or carries another one, and its
\* value (or error message) is the one produced for that request
ServiceRoutingResponse(h) ==
    {[kind |-> k, request_id |-> i, val |-> h.respond_to] :
        k \in Kinds, i \in {h.request_id, OtherId(h.request_id)}}

\* ServiceRoutingRequest { request_id, payload, respond_to }
ServiceRoutingRequest(request) ==
    [request_id |-> request.call_id,
     payload    |-> request,
     respond_to |-> request.seq]

\* JsonRpcApiError::default().with_id(e.request_id.request_id)
\*     .with_message(e.error).to_response()
JsonRpcErrorEnvelope(e) ==
    [jsonrpc |-> "2.0", id |-> e.request_id, result |-> 0, error |-> e.val]

\* JsonRpcApiResponse::default().with_id(response.request_id.request_id)
\*     .with_result(Some(response.response))
JsonRpcSuccessEnvelope(response) ==
    [jsonrpc |-> "2.0", id |-> response.request_id,
     result |-> response.val, error |-> 0]

\* match response { Error(e) => ..., Success(response) => ... }
Envelope(response) ==
    IF response.kind = "Error"
    THEN JsonRpcErrorEnvelope(response)
    ELSE JsonRpcSuccessEnvelope(response)

\* the callback of a request whose caller has given up cannot take an
\* outcome: handle_non_jsonrpc_response returns Err for it
CallbackFails(request) == request.seq \in callerGone

\* BrokerOutputForwarder::handle_non_jsonrpc_response: the body reaches the
\* callback of the broker together with the request it answers, unless the
\* caller has given up
handle_non_jsonrpc_response(out, b, request, body) ==
    IF CallbackFails(request)
    THEN out
    ELSE [out EXCEPT ![request.seq] =
             Append(@, [broker |-> b, request |-> request, body |-> body])]

\* send_broker_response(callback, request, body): Ok(_) => {}
send_broker_response(out, b, request, body) ==
    handle_non_jsonrpc_response(out, b, request, body)

\* send_broker_response: Err(e) => error!("Error message from http broker")
send_broker_response_log(log, request) ==
    IF CallbackFails(request) THEN log + 1 ELSE log

\* a failed delivery ends the task
TaskAfterDeliveryPropagates(b, request) ==
    IF CallbackFails(request) THEN "dead" ELSE "recv"

\* where the task is after send_broker_response returned: the function
\* returns unit from both match arms and the loop takes its next turn
TaskAfterDelivery(b, request) == "recv"

\* a receive that takes the newest queued request instead of the oldest
RecvNewest(q) == [item |-> q[Len(q)], rest |-> SubSeq(q, 1, Len(q) - 1)]

\* tr.recv(): the oldest queued request and the rest of the queue
Recv(q) == [item |-> Head(q), rest |-> Tail(q)]

\* a receive that is matched by request id instead of by channel: it yields
\* the oldest answered channel that carries the request id of ch
OneshotRecvById(ch) ==
    LET same == {s \in Seqs : /\ oneshot[s].st = "sent"
                              /\ oneshot[s].request_id = oneshot[ch].request_id}
    IN  IF same = {} THEN oneshot[ch]
        ELSE oneshot[CHOOSE s \in same : \A t \in same : s <= t]

\* oneshot_rx.await: what the receiver of channel ch yields
OneshotRecv(ch) == oneshot[ch]

\* ---------------------------------------------------------------- mailbox
\* an unbounded channel: every send finds room
MailboxAlwaysHasRoom(q) == TRUE

\* mpsc::channel(BROKER_CHANNEL_BUFFER_SIZE): the channel buffers at most
\* BROKER_CHANNEL_BUFFER_SIZE requests
MailboxHasRoom(q) == Len(q) < BROKER_CHANNEL_BUFFER_SIZE

\* a non-blocking enqueue: the request is buffered when there is room and
\* the attempt fails with MailboxFull, the buffer untouched, when not
try_send(q, request) ==
    IF MailboxHasRoom(q)
    THEN [result |-> "Ok", q |-> Append(q, request)]
    ELSE [result |-> "MailboxFull", q |-> q]

InitChan ==
    /\ chanQueue = <<>>
    /\ chanSenders = 1
    /\ chanResult = "none"
    /\ chanAttempts = 0

\* ServiceBroker::get_sender: another clone of the BrokerSender
ChanGetSender ==
    /\ chanSenders < MaxSenders
    /\ chanSenders' = chanSenders + 1
    /\ UNCHANGED <<chanQueue, chanResult, chanAttempts>>
    /\ UNCHANGED notChanVars

\* a holder of a sender enqueues a request
ChanTrySend ==
    /\ chanAttempts < MaxAttempts
    /\ \E from \in 1..chanSenders, c \in CallIds :
        LET r == try_send(chanQueue, [from |-> from, call_id |-> c])
        IN  /\ chanQueue' = r.q
            /\ chanResult' = r.result
    /\ chanAttempts' = chanAttempts + 1
    /\ UNCHANGED chanSenders
    /\ UNCHANGED notChanVars

\* tr.recv().await: the broker task takes the oldest request
ChanRecv ==
    /\ chanQueue # <<>>
    /\ chanQueue' = Recv(chanQueue).rest
    /\ UNCHANGED <<chanSenders, chanResult, chanAttempts>>
    /\ UNCHANGED notChanVars

NextMailbox ==
    \/ ChanGetSender
    \/ ChanTrySend
    \/ ChanRecv

\* ---------------------------------------------------------------- client
Methods == {"m1", "m2"}

RECURSIVE SeqsUpTo(_, _)
\* the sequences over S of length at most n
SeqsUpTo(S, n) ==
    IF n = 0 THEN {<<>>}
    ELSE LET shorter == SeqsUpTo(S, n - 1)
         IN  shorter \cup {Append(q, x) : q \in shorter, x \in S}

\* ServiceRegistration::new(service_id, firebolt_handlers)
ServiceRegistration ==
    {[firebolt_handlers |-> h] : h \in SeqsUpTo(Methods, MaxHandlers)}

Min(a, b) == IF a <= b THEN a ELSE b

\* backoff * 2 with no upper limit
NextBackoffUncapped(b) == b * 2

\* backoff = std::cmp::min(backoff * 2, Duration::from_secs(60))
NextBackoff(b) == Min(b * 2, BackoffCapSecs)

\* only the first handler of the registration
get_rule_registrations_first(reg) ==
    IF reg.firebolt_handlers = <<>> THEN <<>>
    ELSE <<Head(reg.firebolt_handlers)>>

\* ServiceRegistration::get_rule_registrations: a clone of the handler list
get_rule_registrations(reg) == reg.firebolt_handlers

\* APIClientMessages::Register(APIGatewayServiceRegistrationRequest {..})
RegisterMessage(reg) ==
    [kind |-> "Register", request_id |-> 0,
     firebolt_handlers |-> get_rule_registrations(reg)]

\* the frames the gateway side can put on the stream: text that parses to
\* one of the APIClientMessages, text that does not parse, a frame that is
\* no text, and a stream error
ParsedKinds == {"Register", "Registered", "Error", "Unregister",
                "ServiceCallSuccessResponse", "ServiceCallErrorResponse"}
InboundFrames ==
    {[kind |-> k, request_id |-> 0] :
        k \in ParsedKinds \cup {"Malformed", "NotText", "StreamError"}}
    \cup {[kind |-> "ServiceCall", request_id |-> c] : c \in CallIds}

\* msg.into_text().unwrap_or_default() then serde_json::from_str
Parses(frame) == frame.kind \notin {"Malformed", "NotText"}

\* what handler.handle_request(service_call) can return: the handler is the
\* service's own code, and the response it builds names a request id
HandlerResults(call) ==
    {[ok |-> k, request_id |-> r] :
        k \in BOOLEAN, r \in {call.request_id, OtherId(call.request_id)}}
NoResult == [ok |-> TRUE, request_id |-> 0]

\* the effect of one turn of the message loop
Effect(sent, called, errors, open) ==
    [sent |-> sent, called |-> called, errors |-> errors, open |-> open]

\* a message that does not parse ends the message loop
ParseFailureCloses(frame) == Effect(<<>>, <<>>, 1, FALSE)

\* else { error!(" I don't understand this message: {:?}", msg); }
ParseFailure(frame) == Effect(<<>>, <<>>, 1, TRUE)

\* APIClientMessages::ServiceCall(service_call): handle_request, then the
\* handler's response (or error) is wrapped and sent as it is
ServiceCall(frame, result) ==
    Effect(<<[kind |-> IF result.ok THEN "ServiceCallSuccessResponse"
                       ELSE "ServiceCallErrorResponse",
              request_id |-> result.request_id]>>,
           <<[name |-> "handle_request", request_id |-> frame.request_id,
              ok |-> result.ok]>>,
           IF result.ok THEN 0 ELSE 1,
           TRUE)

\* a receive error ends the message loop
ReceiveErrorBreaks(frame) == Effect(<<>>, <<>>, 1, FALSE)

\* Err(err) => { error!("Error receiving message: {:?}", err); } with the
\* break commented out
ReceiveError(frame) == Effect(<<>>, <<>>, 1, TRUE)

\* a Registered message that is only logged
OnRegisteredSilent(frame) == Effect(<<>>, <<>>, 0, TRUE)

\* APIClientMessages::Registered(..) => { info!(..); handler.on_connected(); }
OnRegistered(frame) ==
    Effect(<<>>, <<[name |-> "on_connected", request_id |-> 0,
                    ok |-> TRUE]>>, 0, TRUE)

\* an Unregister from the gateway ends the message loop
OnOtherUnregisterCloses(frame) ==
    Effect(<<>>, <<>>, 0, frame.kind # "Unregister")

\* the Register, Error and Unregister arms, which only log with info!, and
\* the _ => {} arm that takes the two service-call responses
OnOther(frame) == Effect(<<>>, <<>>, 0, TRUE)

\* the body of while let Some(message) = rx.next().await
handle_message(frame, result) ==
    IF frame.kind = "StreamError" THEN ReceiveError(frame)
    ELSE IF ~Parses(frame) THEN ParseFailure(frame)
    ELSE IF frame.kind = "Registered" THEN OnRegistered(frame)
    ELSE IF frame.kind = "ServiceCall" THEN ServiceCall(frame, result)
    ELSE OnOther(frame)

InitClient ==
    /\ clientPc = "new"
    /\ registration = [firebolt_handlers |-> <<>>]
    /\ backoff = 0
    /\ delays = <<>>
    /\ cameFrom = "none"
    /\ connections = 0
    /\ inbound = <<>>
    /\ outbound = <<>>
    /\ callbacks = <<>>
    /\ errorLog = 0
    /\ onDisconnected = 0

\* WebsocketAPIGatewayClient::new(handler, registration), then start():
\* connect(None) parses the default url and sets backoff to one second
ClientStart ==
    /\ clientPc = "new"
    /\ registration' \in ServiceRegistration
    /\ backoff' = BackoffStartSecs
    /\ clientPc' = "connect"
    /\ cameFrom' = "start"
    /\ UNCHANGED <<delays, connections, inbound, outbound, callbacks,
                   errorLog, onDisconnected>>
    /\ UNCHANGED notClientVars

\* connect_async(..) is Ok: backoff is reset, handle_messages splits the
\* stream and sends Register before it reads anything
ConnectOk ==
    /\ clientPc = "connect"
    /\ connections < MaxConnects
    /\ backoff' = BackoffStartSecs
    /\ connections' = connections + 1
    /\ outbound' = <<RegisterMessage(registration)>>
    /\ inbound' = <<>>
    /\ callbacks' = <<>>
    /\ errorLog' = 0
    /\ delays' = <<>>
    /\ clientPc' = "connected"
    /\ UNCHANGED <<registration, cameFrom, onDisconnected>>
    /\ UNCHANGED notClientVars

\* a connect error that is returned to the caller of connect
ConnectFailReturns ==
    /\ clientPc = "connect"
    /\ Len(delays) < MaxFailures
    /\ clientPc' = "returned"
    /\ cameFrom' = "error"
    /\ UNCHANGED <<registration, backoff, delays, connections, inbound,
                   outbound, callbacks, errorLog, onDisconnected>>
    /\ UNCHANGED notClientVars

\* connect_async(..) is Err: sleep(backoff), then backoff is doubled up to
\* the cap and the loop goes round
ConnectFail ==
    /\ clientPc = "connect"
    /\ Len(delays) < MaxFailures
    /\ delays' = Append(delays, backoff)
    /\ backoff' = NextBackoff(backoff)
    /\ cameFrom' = "sleep"
    /\ UNCHANGED <<clientPc, registration, connections, inbound, outbound,
                   callbacks, errorLog, onDisconnected>>
    /\ UNCHANGED notClientVars

\* rx.next().await yields a frame: one turn of the message loop
ClientReceive ==
    /\ clientPc = "connected"
    /\ Len(inbound) < MaxInbound
    /\ \E frame \in InboundFrames :
        \E result \in (IF frame.kind = "ServiceCall"
                        THEN HandlerResults(frame) ELSE {NoResult}) :
            LET e == handle_message(frame, result)
            IN  /\ inbound' = Append(inbound, frame)
                /\ outbound' = outbound \o e.sent
                /\ callbacks' = callbacks \o e.called
                /\ errorLog' = errorLog + e.errors
                /\ clientPc' = IF e.open THEN "connected" ELSE "connect"
                /\ cameFrom' = IF e.open THEN cameFrom ELSE "disconnect"
    /\ UNCHANGED <<registration, backoff, delays, connections,
                   onDisconnected>>
    /\ UNCHANGED notClientVars

\* rx.next().await yields None: handle_messages returns, connect logs
\* "Disconnected, retrying..." and goes round the loop
ClientDisconnect ==
    /\ clientPc = "connected"
    /\ clientPc' = "connect"
    /\ cameFrom' = "disconnect"
    /\ inbound' = <<>>
    /\ outbound' = <<>>
    /\ callbacks' = <<>>
    /\ errorLog' = 0
    /\ UNCHANGED <<registration, backoff, delays, connections,
                   onDisconnected>>
    /\ UNCHANGED notClientVars

NextClient ==
    \/ ClientStart
    \/ ConnectOk
    \/ ConnectFail
    \/ ClientReceive
    \/ ClientDisconnect

\* ---------------------------------------------------------------- registry
Services == 1..NumServices

\* APIGatewayServiceRegistrationRequest { firebolt_handlers }: a handler
\* (FireboltMethodHandlerAPIRegistration) is named by its firebolt_method
APIGatewayServiceRegistrationRequest ==
    {[firebolt_handlers |-> h] : h \in SeqsUpTo(Methods, MaxHandlers)}

\* a conversion that collects the handlers in reverse order
RegistrationResponseFromReversed(request) ==
    [firebolt_handlers |->
        [i \in DOMAIN request.firebolt_handlers |->
            request.firebolt_handlers[Len(request.firebolt_handlers) + 1 - i]]]

\* From<APIGatewayServiceRegistrationRequest> for
\* APIGatewayServiceRegistrationResponse: the handler list is moved over
RegistrationResponseFrom(request) ==
    [firebolt_handlers |-> request.firebolt_handlers]

\* the method is owned by a service other than s
OwnedByOther(reg, m, s) ==
    \E p \in reg : p.method = m /\ p.service # s

\* every new claim is taken, whoever owns the method
AcceptedLastWriter(reg, s, request) == request

\* the handlers of the request that pass the ownership check, in the
\* order of the request
Accepted(reg, s, request) ==
    LET Free(h) == ~OwnedByOther(reg, h, s)
    IN  [firebolt_handlers |-> SelectSeq(request.firebolt_handlers, Free)]

NoRegMessage == [kind |-> "none", service |-> 0, firebolt_handlers |-> <<>>,
                 reason |-> ""]

InitRegistry ==
    /\ registry = {}
    /\ regRequest = NoRegMessage
    /\ regReply = NoRegMessage
    /\ regRejected = {}

\* the gateway handles Register from service s: the accepted handlers
\* become s's, the reply is Registered with them or Error when there is none
GatewayRegister(s) ==
    \E request \in APIGatewayServiceRegistrationRequest :
        LET accepted == Accepted(registry, s, request)
            claimed == {request.firebolt_handlers[i] :
                            i \in DOMAIN request.firebolt_handlers}
            taken == {accepted.firebolt_handlers[i] :
                            i \in DOMAIN accepted.firebolt_handlers}
        IN  /\ registry' = registry \cup
                    {[method |-> m, service |-> s] : m \in taken}
            /\ regRejected' = regRejected \cup
                    {[method |-> m, service |-> s] : m \in claimed \ taken}
            /\ regRequest' = [kind |-> "Register", service |-> s,
                              firebolt_handlers |-> request.firebolt_handlers,
                              reason |-> ""]
            /\ regReply' =
                  IF accepted.firebolt_handlers = <<>>
                  THEN [kind |-> "Error", service |-> s,
                        firebolt_handlers |-> <<>>,
                        reason |-> IF claimed = {} THEN "NoHandlers"
                                   ELSE "DuplicateRegistration"]
                  ELSE [kind |-> "Registered", service |-> s,
                        firebolt_handlers |->
                            RegistrationResponseFrom(accepted).firebolt_handlers,
                        reason |-> ""]
            /\ UNCHANGED notRegistryVars

\* the gateway handles Unregister of service s: all of s's ownerships go
GatewayUnregister(s) ==
    /\ registry' = {p \in registry : p.service # s}
    /\ regRequest' = [kind |-> "Unregister", service |-> s,
                      firebolt_handlers |-> <<>>, reason |-> ""]
    /\ UNCHANGED <<regReply, regRejected>>
    /\ UNCHANGED notRegistryVars

NextRegistry ==
    \E s \in Services :
        \/ GatewayRegister(s)
        \/ GatewayUnregister(s)

\* ---------------------------------------------------------------- provider
Apps == 1..NumApps
Capabilities == 1..NumCapabilities
ChallengeIds == 1..MaxChallenges

\* ripple_sdk ACK_CHALLENGE_CAPABILITY: the capability RPCProvider has
\* payloads for
ACK_CHALLENGE_CAPABILITY == 1

NoProviderCall == [op |-> "none", capability |-> 0, app |-> 0,
                   listen |-> FALSE, correlation_id |-> 0, result |-> "none"]
ProviderCall(op, capability, app, listen, result) ==
    [op |-> op, capability |-> capability, app |-> app, listen |-> listen,
     correlation_id |-> 0, result |-> result]
\* a call that names a challenge
ProviderCallAbout(op, capability, app, id, result) ==
    [op |-> op, capability |-> capability, app |-> app, listen |-> FALSE,
     correlation_id |-> id, result |-> result]

\* the listener entry is flipped, whatever listen says
register_or_unregister_provider_flip(ls, capability, app, listen) ==
    IF [capability |-> capability, app |-> app] \in ls
    THEN ls \ {[capability |-> capability, app |-> app]}
    ELSE ls \cup {[capability |-> capability, app |-> app]}

\* ProviderBroker::register_or_unregister_provider: the (capability, app)
\* entry is set when listening and removed when not
register_or_unregister_provider(ls, capability, app, listen) ==
    IF listen THEN ls \cup {[capability |-> capability, app |-> app]}
    ELSE ls \ {[capability |-> capability, app |-> app]}

\* the apps with a listener entry for the capability
ListenersOf(ls, capability) ==
    {a \in Apps : [capability |-> capability, app |-> a] \in ls}

\* ProviderResponsePayloadType, and the payload variant of each
PayloadTypes == {"ChallengeResponse", "PinChallengeResponse", "GenericError",
                 "GenericResponse", "EntityInfoResponse"}
SupportedPayloadTypes == PayloadTypes \ {"EntityInfoResponse"}

\* the second RPC parameter of a provider response: the correlation id it
\* carries, the payload types serde parses it as, and its result (or error)
\* value, "absent" when the field is missing
ProviderParams ==
    {[correlation_id |-> i, parses |-> ps, value |-> v] :
        i \in ChallengeIds,
        ps \in {{}} \cup {{t} : t \in SupportedPayloadTypes},
        v \in {"absent", "v", "w"}}

NoProviderResponse == [correlation_id |-> 0,
                       result |-> [variant |-> "none", value |-> "none"]]

\* every payload is wrapped as a GenericResponse
get_provider_response_generic(payload_type, param) ==
    IF payload_type \in param.parses
    THEN [correlation_id |-> param.correlation_id,
          result |-> [variant |-> "GenericResponse", value |-> param.value]]
    ELSE NoProviderResponse

\* a response that is given the id of the first challenge
get_provider_response_first_id(payload_type, param) ==
    IF payload_type \in param.parses
    THEN [correlation_id |-> 1,
          result |-> [variant |-> payload_type, value |-> param.value]]
    ELSE NoProviderResponse

\* a parameter that does not parse still gives a response
get_provider_response_lenient(payload_type, param) ==
    [correlation_id |-> param.correlation_id,
     result |-> [variant |-> payload_type, value |-> param.value]]

\* ProviderRegistrar::get_provider_response(payload_type, params_sequence):
\* the call context is taken off the sequence, the next parameter is parsed
\* as the type that goes with payload_type and wrapped in its variant;
\* a GenericResponse with no result carries Value::Null
get_provider_response(payload_type, param) ==
    IF payload_type \in SupportedPayloadTypes /\ payload_type \in param.parses
    THEN [correlation_id |-> param.correlation_id,
          result |-> [variant |-> payload_type,
                      value |-> IF payload_type = "GenericResponse"
                                   /\ param.value = "absent"
                                THEN "Null" ELSE param.value]]
    ELSE NoProviderResponse

\* a response payload for every capability
get_response_payload_any(capability, result) ==
    [variant |-> "ChallengeResponse", value |-> result]

\* RPCProvider::get_error_payload(result)
get_error_payload(capability, result) ==
    IF capability = ACK_CHALLENGE_CAPABILITY
    THEN [variant |-> "ChallengeError", value |-> result]
    ELSE NoProviderResponse.result

\* RPCProvider::get_response_payload(result)
get_response_payload(capability, result) ==
    IF capability = ACK_CHALLENGE_CAPABILITY
    THEN [variant |-> "ChallengeResponse", value |-> result]
    ELSE NoProviderResponse.result

\* ProviderBroker::provider_response: the pending challenge with the
\* response's correlation id is resolved with the result and removed; a
\* response with no pending challenge is logged and dropped
provider_response(pend, out, response) ==
    IF \E c \in pend : c.id = response.correlation_id
    THEN [pending |-> {c \in pend : c.id # response.correlation_id},
          outcome |-> [out EXCEPT ![response.correlation_id] =
                           Append(@, response.result)]]
    ELSE [pending |-> pend, outcome |-> out]

InitProvider ==
    /\ listeners = {}
    /\ providerCall = NoProviderCall
    /\ providerEvents = [a \in Apps |-> <<>>]
    /\ pending = {}
    /\ challengeOutcome = [i \in ChallengeIds |-> <<>>]
    /\ nextChallenge = 1
    /\ providerFocus = <<>>

\* RPCProvider::on_request(ctx, request): hands the request to the
\* provider broker and answers ListenerResponse { listening: listen, .. }
RPCProviderOnRequest(capability, app, listen) ==
    /\ listeners' = register_or_unregister_provider(listeners, capability,
                                                    app, listen)
    /\ providerCall' = ProviderCall("on_request", capability, app, listen,
                                    IF listen THEN "Ok(listening)"
                                    ELSE "Ok(not listening)")
    /\ UNCHANGED <<providerEvents, pending, challengeOutcome, nextChallenge,
                   providerFocus>>
    /\ UNCHANGED notProviderVars

\* ProviderRegistrar::callback_register_provider: the capability logic is
\* skipped, the call fails with "Missing provides attribute"
CallbackRegisterProvider(capability, app, listen) ==
    /\ providerCall' = ProviderCall("callback_register_provider", capability,
                                    app, listen,
                                    "Err(Missing provides attribute)")
    /\ UNCHANGED <<listeners, providerEvents, pending, challengeOutcome,
                   nextChallenge, providerFocus>>
    /\ UNCHANGED notProviderVars

\* ProviderRegistrar::callback_provider_invoker: the call context and the
\* params are read, then the call fails with "Unexpected schema
\* configuration"; the provider broker is not reached
CallbackProviderInvoker(capability, app) ==
    /\ \E params \in {"ok", "no call context", "no params"} :
        providerCall' = ProviderCall("callback_provider_invoker", capability,
                            app, FALSE,
                            IF params = "no call context"
                            THEN "Err(Missing call context)"
                            ELSE IF params = "no params"
                            THEN "Err(Missing params)"
                            ELSE "Err(Unexpected schema configuration)")
    /\ UNCHANGED <<listeners, providerEvents, pending, challengeOutcome,
                   nextChallenge, providerFocus>>
    /\ UNCHANGED notProviderVars

\* ProviderBroker::invoke_method, reached by callers outside the registrar:
\* with one listener for the capability a challenge is created and its
\* event is delivered to the listener; with none or several the call fails
BrokerInvokeMethod(capability) ==
    /\ nextChallenge <= MaxChallenges
    /\ LET ls == ListenersOf(listeners, capability)
       IN  IF Cardinality(ls) = 1
           THEN LET provider == CHOOSE a \in ls : TRUE
                IN  /\ pending' = pending \cup
                          {[id |-> nextChallenge, capability |-> capability,
                            app |-> provider, age |-> 0]}
                    /\ providerEvents' =
                          [providerEvents EXCEPT ![provider] =
                              Append(@, [capability |-> capability,
                                         correlation_id |-> nextChallenge])]
                    /\ nextChallenge' = nextChallenge + 1
                    /\ providerCall' = ProviderCallAbout("invoke_method",
                          capability, 0, nextChallenge, "Ok")
           ELSE /\ providerCall' = ProviderCallAbout("invoke_method",
                      capability, 0, 0,
                      IF ls = {} THEN "Err(NoProviderRegistered)"
                      ELSE "Err(AmbiguousProvider)")
                /\ UNCHANGED <<pending, providerEvents, nextChallenge>>
    /\ UNCHANGED <<listeners, challengeOutcome, providerFocus>>
    /\ UNCHANGED notProviderVars

\* the second parameter of a call of callback_response or callback_error:
\* it names a challenge and parses as the payload type or not at all
CallbackParams(payload_type) ==
    {[correlation_id |-> id, parses |-> ps, value |-> "v"] :
        id \in ChallengeIds, ps \in {{}, {payload_type}}}

\* ProviderRegistrar::callback_response: the params are read as a
\* GenericResponse and handed to the provider broker; params that do not
\* parse fail with "Couldn't resolve response payload type"
CallbackResponseWith(param) ==
    /\ LET response == get_provider_response("GenericResponse", param)
           r == provider_response(pending, challengeOutcome, response)
       IN  IF response # NoProviderResponse
           THEN /\ pending' = r.pending
                /\ challengeOutcome' = r.outcome
                /\ providerCall' = ProviderCallAbout("callback_response",
                       0, 0, param.correlation_id, "Ok(None)")
           ELSE /\ providerCall' = ProviderCallAbout("callback_response",
                       0, 0, param.correlation_id,
                       "Err(Couldn't resolve response payload type)")
                /\ UNCHANGED <<pending, challengeOutcome>>
    /\ UNCHANGED <<listeners, providerEvents, nextChallenge, providerFocus>>
    /\ UNCHANGED notProviderVars

CallbackResponse ==
    \E param \in CallbackParams("GenericResponse") :
        CallbackResponseWith(param)

\* ProviderRegistrar::callback_error: the params are read as a GenericError
\* and handed to the provider broker; params that do not parse fail with
\* "Missing provider attributes"
CallbackErrorWith(param) ==
    /\ LET response == get_provider_response("GenericError", param)
           r == provider_response(pending, challengeOutcome, response)
       IN  IF response # NoProviderResponse
           THEN /\ pending' = r.pending
                /\ challengeOutcome' = r.outcome
                /\ providerCall' = ProviderCallAbout("callback_error",
                       0, 0, param.correlation_id, "Ok(None)")
           ELSE /\ providerCall' = ProviderCallAbout("callback_error",
                       0, 0, param.correlation_id,
                       "Err(Missing provider attributes)")
                /\ UNCHANGED <<pending, challengeOutcome>>
    /\ UNCHANGED <<listeners, providerEvents, nextChallenge, providerFocus>>
    /\ UNCHANGED notProviderVars

CallbackError ==
    \E param \in CallbackParams("GenericError") : CallbackErrorWith(param)

\* RPCProvider::response(ctx, resp): the result is wrapped by
\* get_response_payload and handed to the provider broker; with no payload
\* for the capability the call fails with "No response payload defined"
RPCProviderResponse(capability) ==
    /\ \E id \in ChallengeIds :
        LET payload == get_response_payload(capability, "v")
            r == provider_response(pending, challengeOutcome,
                     [correlation_id |-> id, result |-> payload])
        IN  IF payload # NoProviderResponse.result
            THEN /\ pending' = r.pending
                 /\ challengeOutcome' = r.outcome
                 /\ providerCall' = ProviderCallAbout("response", capability,
                        0, id, "Ok(None)")
            ELSE /\ providerCall' = ProviderCallAbout("response", capability,
                        0, id, "Err(No response payload defined)")
                 /\ UNCHANGED <<pending, challengeOutcome>>
    /\ UNCHANGED <<listeners, providerEvents, nextChallenge, providerFocus>>
    /\ UNCHANGED notProviderVars

\* RPCProvider::error(ctx, resp): the error is wrapped by get_error_payload
\* and handed to the provider broker; with no payload for the capability
\* the call fails with "No error response payload defined"
RPCProviderError(capability) ==
    /\ \E id \in ChallengeIds :
        LET payload == get_error_payload(capability, "v")
            r == provider_response(pending, challengeOutcome,
                     [correlation_id |-> id, result |-> payload])
        IN  IF payload # NoProviderResponse.result
            THEN /\ pending' = r.pending
                 /\ challengeOutcome' = r.outcome
                 /\ providerCall' = ProviderCallAbout("error", capability,
                        0, id, "Ok(None)")
            ELSE /\ providerCall' = ProviderCallAbout("error", capability,
                        0, id, "Err(No error response payload defined)")
                 /\ UNCHANGED <<pending, challengeOutcome>>
    /\ UNCHANGED <<listeners, providerEvents, nextChallenge, providerFocus>>
    /\ UNCHANGED notProviderVars

\* ProviderBroker::focus: the focus directive goes to the requesting app
\* when it is the listener of the capability, and is refused when not
focus(ls, capability, app) ==
    IF ListenersOf(ls, capability) = {app}
    THEN [result |-> "Ok", sent |-> <<[capability |-> capability,
                                       app |-> app]>>]
    ELSE [result |-> "Err(NoProviderRegistered)", sent |-> <<>>]

\* RPCProvider::focus(ctx, request): calls the provider broker, drops what
\* it returns and answers Ok(None)
RPCProviderFocus(capability, app) ==
    /\ providerFocus' = focus(listeners, capability, app).sent
    /\ providerCall' = ProviderCall("focus", capability, app, FALSE,
                                    "Ok(None)")
    /\ UNCHANGED <<listeners, providerEvents, pending, challengeOutcome,
                   nextChallenge>>
    /\ UNCHANGED notProviderVars

\* ProviderRegistrar::callback_focus: the capability logic is skipped, the
\* call fails with "Missing provides attribute"
CallbackFocus(capability, app) ==
    /\ providerCall' = ProviderCall("callback_focus", capability, app, FALSE,
                                    "Err(Missing provides attribute)")
    /\ UNCHANGED <<listeners, providerEvents, pending, challengeOutcome,
                   nextChallenge, providerFocus>>
    /\ UNCHANGED notProviderVars

\* time passes: every pending challenge gets older
Tick ==
    /\ pending # {}
    /\ \A c \in pending : c.age < MaxTicks * TickMs
    /\ pending' = {[c EXCEPT !.age = @ + TickMs] : c \in pending}
    /\ UNCHANGED <<listeners, providerCall, providerEvents, challengeOutcome,
                   nextChallenge, providerFocus>>
    /\ UNCHANGED notProviderVars

NextProvider ==
    \E capability \in Capabilities, app \in Apps :
        \/ \E listen \in BOOLEAN :
               RPCProviderOnRequest(capability, app, listen)
        \/ \E listen \in BOOLEAN :
               CallbackRegisterProvider(capability, app, listen)
        \/ CallbackProviderInvoker(capability, app)

\* the focus entry points, with listeners coming and going
NextFocus ==
    \E capability \in Capabilities, app \in Apps :
        \/ \E listen \in BOOLEAN :
               RPCProviderOnRequest(capability, app, listen)
        \/ RPCProviderFocus(capability, app)
        \/ CallbackFocus(capability, app)

\* the challenge flow of the acknowledge-challenge providers: apps start and
\* stop listening for ACK_CHALLENGE_CAPABILITY, challenges are invoked for
\* any capability, responses arrive for any correlation id
NextChallenge ==
    \/ \E app \in Apps, listen \in BOOLEAN :
           RPCProviderOnRequest(ACK_CHALLENGE_CAPABILITY, app, listen)
    \/ \E capability \in Capabilities : BrokerInvokeMethod(capability)
    \/ CallbackResponse
    \/ \E capability \in Capabilities : RPCProviderResponse(capability)

\* the entry points that answer a challenge, with a provider of the
\* acknowledge-challenge capability listening
NextAnswers ==
    \/ \E app \in Apps :
           RPCProviderOnRequest(ACK_CHALLENGE_CAPABILITY, app, TRUE)
    \/ BrokerInvokeMethod(ACK_CHALLENGE_CAPABILITY)
    \/ CallbackResponse
    \/ CallbackError
    \/ \E capability \in Capabilities : RPCProviderResponse(capability)
    \/ \E capability \in Capabilities : RPCProviderError(capability)

\* the challenge flow with time passing
NextTimeout ==
    \/ \E app \in Apps, listen \in BOOLEAN :
           RPCProviderOnRequest(ACK_CHALLENGE_CAPABILITY, app, listen)
    \/ \E capability \in Capabilities : BrokerInvokeMethod(capability)
    \/ CallbackResponse
    \/ \E capability \in Capabilities : RPCProviderResponse(capability)
    \/ Tick

\* ---------------------------------------------------------------- registrar
MethodNames == 1..NumMethodNames

\* enum MethodType
MethodTypes == {"AppEventListener", "Provider", "AppEventEmitter", "Error",
                "ProviderInvoker", "Focus", "Response"}

\* the attributes a ProviderRelationSet may declare
RelationAttributes == {"provided_by", "capability", "provides_to",
                       "error_for", "allow_focus_for", "response_for"}

\* a later registration takes the name over
register_method_replace(module, method_name, method_type) ==
    [module |-> [module EXCEPT ![method_name] = method_type], ok |-> TRUE]

\* ProviderRegistrar::register_method(method_name, method_type, rpc_module):
\* register_async_method with the callback of the method type; Ok gives
\* true, Err (the name is taken) is logged and gives false
register_method(module, method_name, method_type) ==
    IF module[method_name] = "none"
    THEN [module |-> [module EXCEPT ![method_name] = method_type],
          ok |-> TRUE]
    ELSE [module |-> module, ok |-> FALSE]

\* ProviderRegistrar::register_methods: the relation map is not consulted,
\* nothing is registered and the count returned is 0
register_methods(relation_set) == 0

NoRegistrarCall == [op |-> "none", args |-> <<>>]

InitRegistrar ==
    /\ rpcModule = [n \in MethodNames |-> "none"]
    /\ registrarCall = NoRegistrarCall
    /\ registrarResult = "none"

RegisterMethod(method_name, method_type) ==
    LET r == register_method(rpcModule, method_name, method_type)
    IN  /\ rpcModule' = r.module
        /\ registrarCall' = [op |-> "register_method",
                             args |-> <<method_name, method_type>>]
        /\ registrarResult' = r.ok
        /\ UNCHANGED notRegistrarVars

RegisterMethods(relation_set) ==
    /\ registrarCall' = [op |-> "register_methods",
                         args |-> <<relation_set>>]
    /\ registrarResult' = register_methods(relation_set)
    /\ UNCHANGED rpcModule
    /\ UNCHANGED notRegistrarVars

GetProviderResponse(payload_type, param) ==
    /\ registrarCall' = [op |-> "get_provider_response",
                         args |-> <<payload_type, param>>]
    /\ registrarResult' = get_provider_response(payload_type, param)
    /\ UNCHANGED rpcModule
    /\ UNCHANGED notRegistrarVars

NextRegistrar ==
    \/ \E method_name \in MethodNames, method_type \in MethodTypes :
           RegisterMethod(method_name, method_type)
    \/ \E relation_set \in SUBSET RelationAttributes :
           RegisterMethods(relation_set)

NextParsing ==
    \E payload_type \in PayloadTypes, param \in ProviderParams :
        GetProviderResponse(payload_type, param)

\* ---------------------------------------------------------------- types
\* the ServiceRoutingResponses a service can answer with: Success carries a
\* value and Error a message, both named by a number
RoutingResponses ==
    {[kind |-> k, request_id |-> i, val |-> v] :
        k \in Kinds, i \in CallIds, v \in 1..MaxRequests}

\* JsonRpcApiError::default().into(): the response of an error that was
\* given no id and no message
JsonRpcApiErrorDefault ==
    [jsonrpc |-> "2.0", id |-> 0, result |-> 0, error |-> 0]

\* impl From<ServiceRoutingResponse> for JsonRpcApiResponse
JsonRpcApiResponseFrom(response) ==
    IF response.kind = "Error"
    THEN JsonRpcApiErrorDefault
    ELSE [jsonrpc |-> "2.0", id |-> response.request_id,
          result |-> response.val, error |-> 0]

InitTypes ==
    /\ conversions = {}
    /\ builderCalls = <<>>
    /\ builderHandlers = <<>>
    /\ builderState = "ok"
    /\ built = <<>>

\* JsonRpcApiResponse::from(response)
Convert(response) ==
    /\ conversions' = conversions \cup
           {[response |-> response,
             converted |-> JsonRpcApiResponseFrom(response)]}
    /\ UNCHANGED <<builderCalls, builderHandlers, builderState, built>>
    /\ UNCHANGED notTypesVars

NextConversion ==
    \E response \in RoutingResponses : Convert(response)

\* the rule expressions a handler can carry
RuleExprs == {"r1", "r2"}

\* enum Handler: None, JqRule { alias, rule } or StaticRule { alias, rule }
Handlers ==
    {[kind |-> "None", alias |-> "", rule |-> ""]} \cup
    {[kind |-> k, alias |-> a, rule |-> r] :
        k \in {"JqRule", "StaticRule"}, a \in Methods, r \in RuleExprs}

\* FireboltMethodHandlerAPIRegistration of a JqRule or a StaticRule: the
\* method is the rule's alias and the rule keeps alias and expression
HandlerRegistration(h) ==
    [firebolt_method |-> h.alias,
     jq_rule |-> [alias |-> h.alias, rule |-> h.rule]]

\* a builder that puts the newest handler first
add_handler_front(handlers, h) == <<HandlerRegistration(h)>> \o handlers

\* ServiceRegistrationBuilder::add_handler: self.firebolt_handlers.push(..)
add_handler(handlers, h) == Append(handlers, HandlerRegistration(h))

\* add_handler(firebolt_method): Handler::None reaches todo!() while the
\* argument of push is computed, so the call panics and nothing is pushed
AddHandler(h) ==
    /\ builderState = "ok"
    /\ Len(builderCalls) < MaxHandlers
    /\ builderCalls' = Append(builderCalls, h)
    /\ IF h.kind = "None"
       THEN /\ builderState' = "aborted"
            /\ UNCHANGED builderHandlers
       ELSE /\ builderHandlers' = add_handler(builderHandlers, h)
            /\ UNCHANGED builderState
    /\ UNCHANGED <<conversions, built>>
    /\ UNCHANGED notTypesVars

\* ServiceRegistrationBuilder::build: the registration gets a clone of the
\* handlers; built is the firebolt_handlers of the last registration built
Build ==
    /\ builderState = "ok"
    /\ built' = builderHandlers
    /\ UNCHANGED <<conversions, builderCalls, builderHandlers, builderState>>
    /\ UNCHANGED notTypesVars

NextBuilder ==
    \/ \E h \in Handlers : AddHandler(h)
    \/ Build

\* ---------------------------------------------------------------- init
Init ==
    /\ InitChan
    /\ InitProvider
    /\ InitRegistrar
    /\ InitTypes
    /\ callerGone = {}
    /\ deliveryErrors = 0
    /\ InitRegistry
    /\ InitClient
    /\ platform_state = [b \in Brokers |-> "unset"]
    /\ brokerState = [b \in Brokers |-> "unbuilt"]
    /\ spawned = [b \in Brokers |-> 0]
    /\ taskPc = [b \in Brokers |-> "none"]
    /\ taskReq = [b \in Brokers |-> NoReq]
    /\ mailbox = [b \in Brokers |-> <<>>]
    /\ servicesLock = 0
    /\ gatewayQueue = <<>>
    /\ gatewayOpen = TRUE
    /\ held = {}
    /\ oneshot = [s \in Seqs |-> NoChan]
    /\ outputs = [s \in Seqs |-> <<>>]
    /\ nextSeq = 1
    /\ enqueuedHist = [b \in Brokers |-> <<>>]
    /\ submittedHist = [b \in Brokers |-> <<>>]
    /\ discarded = 0

\* ---------------------------------------------------------------- broker
\* ServiceBroker::get_broker(ps, ...): creates the mailbox, then spawns the
\* task when ps is Some and panics when it is None (brokers are numbered in
\* the order of their construction)
GetBroker(b) ==
    /\ UNCHANGED notBrokerVars
    /\ brokerState[b] = "unbuilt"
    /\ \A a \in Brokers : a < b => brokerState[a] # "unbuilt"
    /\ \E ps \in {"Some", "None"} :
        /\ platform_state' = [platform_state EXCEPT ![b] = ps]
        /\ IF ps = "Some"
           THEN /\ brokerState' = [brokerState EXCEPT ![b] = "built"]
                /\ spawned' = [spawned EXCEPT ![b] = @ + 1]
                /\ taskPc' = [taskPc EXCEPT ![b] = "recv"]
           ELSE /\ brokerState' = [brokerState EXCEPT ![b] = "aborted"]
                /\ UNCHANGED <<spawned, taskPc>>
    /\ UNCHANGED <<taskReq, mailbox, servicesLock, gatewayQueue, gatewayOpen,
                   held, oneshot, outputs, nextSeq, enqueuedHist,
                   submittedHist, discarded>>

\* the call ids a caller can use for request number n: call ids are opaque
\* and compared for equality only, so the n-th request uses one of the first
\* n ids
FreshCallIds(n) == {c \in CallIds : c <= n}

\* get_sender().try_send(request): a caller puts a request in the mailbox
Enqueue(b) ==
    /\ UNCHANGED notBrokerVars
    /\ brokerState[b] = "built"
    /\ taskPc[b] # "dead"
    /\ MailboxHasRoom(mailbox[b])
    /\ nextSeq <= MaxRequests
    /\ \E c \in FreshCallIds(nextSeq) :
        mailbox' = [mailbox EXCEPT ![b] = Append(@, BrokerRequest(c, nextSeq))]
    /\ enqueuedHist' = [enqueuedHist EXCEPT ![b] = Append(@, nextSeq)]
    /\ nextSeq' = nextSeq + 1
    /\ UNCHANGED <<platform_state, brokerState, spawned, taskPc, taskReq,
                   servicesLock, gatewayQueue, gatewayOpen, held, oneshot,
                   outputs, submittedHist, discarded>>

\* a task that takes its next request while a reply is still awaited
TaskRecvWhileAwaiting(b) ==
    /\ UNCHANGED notBrokerVars
    /\ taskPc[b] \in {"recv", "await"}
    /\ mailbox[b] # <<>>
    /\ taskReq' = [taskReq EXCEPT ![b] = Recv(mailbox[b]).item]
    /\ mailbox' = [mailbox EXCEPT ![b] = Recv(mailbox[b]).rest]
    /\ taskPc' = [taskPc EXCEPT ![b] = "lock"]
    /\ UNCHANGED <<platform_state, brokerState, spawned, servicesLock,
                   gatewayQueue, gatewayOpen, held, oneshot, outputs,
                   nextSeq, enqueuedHist, submittedHist, discarded>>

\* while let Some(request) = tr.recv().await
TaskRecv(b) ==
    /\ UNCHANGED notBrokerVars
    /\ taskPc[b] = "recv"
    /\ mailbox[b] # <<>>
    /\ taskReq' = [taskReq EXCEPT ![b] = Recv(mailbox[b]).item]
    /\ mailbox' = [mailbox EXCEPT ![b] = Recv(mailbox[b]).rest]
    /\ taskPc' = [taskPc EXCEPT ![b] = "lock"]
    /\ UNCHANGED <<platform_state, brokerState, spawned, servicesLock,
                   gatewayQueue, gatewayOpen, held, oneshot, outputs,
                   nextSeq, enqueuedHist, submittedHist, discarded>>

\* mpsc::Sender::try_send succeeds when the receiver is alive and has room
TrySendOk == gatewayOpen /\ Len(gatewayQueue) < GatewayQueueCap

\* a guard bound to a variable that lives to the end of the loop body
GuardKeptByTask(b) == b

\* the services_gateway_api guard after the statement that took it: the
\* guard is a temporary of the get_sender() statement and is dropped with it
GuardAfterGetSender(b) == 0

\* services_gateway_api.lock().await.get_sender(); oneshot::channel();
\* ServiceRoutingRequest {..}; services_tx.try_send(..) accepted by the queue
\* (no suspension point between the lock being granted and try_send)
TaskSubmit(b) ==
    /\ UNCHANGED notBrokerVars
    /\ taskPc[b] = "lock"
    /\ servicesLock = 0
    /\ servicesLock' = GuardAfterGetSender(b)
    /\ TrySendOk
    /\ gatewayQueue' = Append(gatewayQueue, ServiceRoutingRequest(taskReq[b]))
    /\ oneshot' = [oneshot EXCEPT ![taskReq[b].seq] =
                      [st |-> "open", request_id |-> taskReq[b].call_id,
                       resp |-> NoResp]]
    /\ submittedHist' = [submittedHist EXCEPT ![b] = Append(@, taskReq[b].seq)]
    /\ taskPc' = [taskPc EXCEPT ![b] = "await"]
    /\ UNCHANGED <<platform_state, brokerState, spawned, taskReq, mailbox,
                   gatewayOpen, held, outputs, nextSeq, enqueuedHist,
                   discarded>>

\* services_tx.try_send(service_request).unwrap() on a full or closed queue:
\* the unwrap panics, the task ends and its receiver tr is dropped
TaskSubmitPanic(b) ==
    /\ UNCHANGED notBrokerVars
    /\ taskPc[b] = "lock"
    /\ servicesLock = 0
    /\ servicesLock' = GuardAfterGetSender(b)
    /\ ~TrySendOk
    /\ oneshot' = [oneshot EXCEPT ![taskReq[b].seq] =
                      [st |-> "rejected", request_id |-> taskReq[b].call_id,
                       resp |-> NoResp]]
    /\ taskPc' = [taskPc EXCEPT ![b] = "dead"]
    /\ mailbox' = [mailbox EXCEPT ![b] = <<>>]
    /\ UNCHANGED <<platform_state, brokerState, spawned, taskReq,
                   gatewayQueue, gatewayOpen, held, outputs, nextSeq,
                   enqueuedHist, submittedHist, discarded>>

\* a task that delivers the outcome but keeps awaiting the same receiver
TaskReceiveResponseAgain(b) ==
    /\ UNCHANGED notTaskVars
    /\ taskPc[b] = "await"
    /\ OneshotRecv(taskReq[b].seq).st = "sent"
    /\ outputs' = send_broker_response(outputs, b, taskReq[b],
                      Envelope(OneshotRecv(taskReq[b].seq).resp))
    /\ deliveryErrors' = send_broker_response_log(deliveryErrors, taskReq[b])
    /\ UNCHANGED <<platform_state, brokerState, spawned, taskPc, taskReq,
                   mailbox, servicesLock, gatewayQueue, gatewayOpen, held,
                   oneshot, nextSeq, enqueuedHist, submittedHist, discarded>>

\* match oneshot_rx.await { Ok(response) => ... send_broker_response ... }
TaskReceiveResponse(b) ==
    /\ UNCHANGED notTaskVars
    /\ taskPc[b] = "await"
    /\ OneshotRecv(taskReq[b].seq).st = "sent"
    /\ outputs' = send_broker_response(outputs, b, taskReq[b],
                      Envelope(OneshotRecv(taskReq[b].seq).resp))
    /\ deliveryErrors' = send_broker_response_log(deliveryErrors, taskReq[b])
    /\ oneshot' = [oneshot EXCEPT ![taskReq[b].seq].st = "closed"]
    /\ taskPc' = [taskPc EXCEPT ![b] = TaskAfterDelivery(b, taskReq[b])]
    /\ taskReq' = [taskReq EXCEPT ![b] = NoReq]
    /\ UNCHANGED <<platform_state, brokerState, spawned, mailbox,
                   servicesLock, gatewayQueue, gatewayOpen, held, nextSeq,
                   enqueuedHist, submittedHist, discarded>>

\* match oneshot_rx.await { Err(e) => error!(..) }: the sender was dropped
TaskReceiveError(b) ==
    /\ UNCHANGED notBrokerVars
    /\ taskPc[b] = "await"
    /\ OneshotRecv(taskReq[b].seq).st = "dropped"
    /\ oneshot' = [oneshot EXCEPT ![taskReq[b].seq].st = "failed"]
    /\ taskPc' = [taskPc EXCEPT ![b] = "recv"]
    /\ taskReq' = [taskReq EXCEPT ![b] = NoReq]
    /\ UNCHANGED <<platform_state, brokerState, spawned, mailbox,
                   servicesLock, gatewayQueue, gatewayOpen, held, outputs,
                   nextSeq, enqueuedHist, submittedHist, discarded>>

\* the caller of a request gives up before its outcome is delivered
CallerGivesUp(n) ==
    /\ n < nextSeq
    /\ n \notin callerGone
    /\ outputs[n] = <<>>
    /\ callerGone' = callerGone \cup {n}
    /\ UNCHANGED deliveryErrors
    /\ UNCHANGED <<brokerVars, chanVars, clientVars, registryVars,
                   providerVars, registrarVars, typesVars>>

\* ---------------------------------------------------------------- gateway
\* the gateway takes the next ServiceRoutingRequest from its inbound queue
GatewayTake ==
    /\ UNCHANGED notBrokerVars
    /\ gatewayOpen
    /\ gatewayQueue # <<>>
    /\ held' = held \cup {[request_id |-> Head(gatewayQueue).request_id,
                           respond_to |-> Head(gatewayQueue).respond_to]}
    /\ gatewayQueue' = Tail(gatewayQueue)
    /\ UNCHANGED <<platform_state, brokerState, spawned, taskPc, taskReq,
                   mailbox, servicesLock, gatewayOpen, oneshot, outputs,
                   nextSeq, enqueuedHist, submittedHist, discarded>>

\* respond_to.send(response): the sender is consumed by the send
GatewayRespond ==
    /\ UNCHANGED notBrokerVars
    /\ \E h \in held :
        \E resp \in ServiceRoutingResponse(h) :
            /\ held' = held \ {h}
            /\ oneshot' = [oneshot EXCEPT ![h.respond_to] =
                              [@ EXCEPT !.st = "sent", !.resp = resp]]
            /\ UNCHANGED <<platform_state, brokerState, spawned, taskPc,
                           taskReq, mailbox, servicesLock, gatewayQueue,
                           gatewayOpen, outputs, nextSeq, enqueuedHist,
                           submittedHist, discarded>>

\* respond_to dropped without a send (the service connection died)
GatewayDropSender ==
    /\ UNCHANGED notBrokerVars
    /\ \E h \in held :
        /\ held' = held \ {h}
        /\ oneshot' = [oneshot EXCEPT ![h.respond_to].st = "dropped"]
        /\ UNCHANGED <<platform_state, brokerState, spawned, taskPc, taskReq,
                       mailbox, servicesLock, gatewayQueue, gatewayOpen,
                       outputs, nextSeq, enqueuedHist, submittedHist,
                       discarded>>

\* a reply arrives for a correlation id that was answered before and has no
\* pending sender: it is discarded
GatewayDuplicateReply ==
    /\ UNCHANGED notBrokerVars
    /\ \E id \in CallIds :
        /\ discarded < MaxDiscarded
        /\ \A h \in held : h.request_id # id
        /\ \E s \in Seqs : /\ oneshot[s].request_id = id
                           /\ oneshot[s].st \in {"sent", "closed"}
        /\ discarded' = discarded + 1
        /\ UNCHANGED <<platform_state, brokerState, spawned, taskPc, taskReq,
                       mailbox, servicesLock, gatewayQueue, gatewayOpen, held,
                       oneshot, outputs, nextSeq, enqueuedHist,
                       submittedHist>>

\* the gateway goes away: its receiver and every sender it owns are dropped
GatewayClose ==
    /\ UNCHANGED notBrokerVars
    /\ gatewayOpen
    /\ gatewayOpen' = FALSE
    /\ gatewayQueue' = <<>>
    /\ held' = {}
    /\ oneshot' = [s \in Seqs |->
                     IF oneshot[s].st = "open"
                     THEN [oneshot[s] EXCEPT !.st = "dropped"]
                     ELSE oneshot[s]]
    /\ UNCHANGED <<platform_state, brokerState, spawned, taskPc, taskReq,
                   mailbox, servicesLock, outputs, nextSeq, enqueuedHist,
                   submittedHist, discarded>>

Next ==
    \/ \E b \in Brokers : GetBroker(b)
    \/ \E b \in Brokers : Enqueue(b)
    \/ \E b \in Brokers : TaskRecv(b)
    \/ \E b \in Brokers : TaskSubmit(b)
    \/ \E b \in Brokers : TaskSubmitPanic(b)
    \/ \E b \in Brokers : TaskReceiveResponse(b)
    \/ \E b \in Brokers : TaskReceiveError(b)
    \/ GatewayTake
    \/ GatewayRespond
    \/ GatewayDropSender
    \/ GatewayDuplicateReply
    \/ GatewayClose

Spec == Init /\ [][Next]_vars

\* one broker whose callers may give up
NextDelivery ==
    \/ GetBroker(1)
    \/ Enqueue(1)
    \/ TaskRecv(1)
    \/ TaskSubmit(1)
    \/ TaskSubmitPanic(1)
    \/ TaskReceiveResponse(1)
    \/ TaskReceiveError(1)
    \/ \E n \in 1..MaxRequests : CallerGivesUp(n)
    \/ GatewayTake
    \/ GatewayRespond
    \/ GatewayDropSender
    \/ GatewayDuplicateReply
    \/ GatewayClose

SpecDelivery == Init /\ [][NextDelivery]_vars

\* the mailbox channel on its own
SpecMailbox == Init /\ [][NextMailbox]_vars

\* the gateway client on its own
SpecClient == Init /\ [][NextClient]_vars

\* the gateway client with its connect loop scheduled: a connect attempt
\* that can be made is made, since connect_async and sleep both complete
SpecClientLive ==
    Init /\ [][NextClient]_vars /\ WF_vars(ConnectOk \/ ConnectFail)

\* the gateway's registration handshake on its own
SpecRegistry == Init /\ [][NextRegistry]_vars

\* the provider entry points on their own
SpecProvider == Init /\ [][NextProvider]_vars

SpecFocus == Init /\ [][NextFocus]_vars

SpecChallenge == Init /\ [][NextChallenge]_vars

SpecAnswers == Init /\ [][NextAnswers]_vars

SpecBuilder == Init /\ [][NextBuilder]_vars

SpecTimeout == Init /\ [][NextTimeout]_vars

SpecRegistrar == Init /\ [][NextRegistrar]_vars

SpecParsing == Init /\ [][NextParsing]_vars

SpecConversion == Init /\ [][NextConversion]_vars

\* ---------------------------------------------------------------- helpers
Range(f) == {f[i] : i \in DOMAIN f}

IsPrefix(p, q) == /\ Len(p) <= Len(q)
                  /\ \A i \in 1..Len(p) : p[i] = q[i]

\* the broker whose mailbox received request s
Owner(s) == CHOOSE b \in Brokers : s \in Range(enqueuedHist[b])

\* request s is submitted and its task is awaiting the reply
AwaitingReply(s) ==
    \E b \in Brokers : taskPc[b] = "await" /\ taskReq[b].seq = s

\* requests whose loop iteration has ended: answered, failed or rejected
Done == {s \in Seqs : oneshot[s].st \in {"closed", "failed", "rejected"}}

TypeOK ==
    /\ platform_state \in [Brokers -> {"unset", "Some", "None"}]
    /\ brokerState \in [Brokers -> {"unbuilt", "built", "aborted"}]
    /\ taskPc \in [Brokers -> {"none", "recv", "lock", "await", "dead"}]
    /\ servicesLock \in {0} \cup Brokers
    /\ gatewayOpen \in BOOLEAN
    /\ \A s \in Seqs : Len(outputs[s]) <= 1
    /\ nextSeq \in 1..(MaxRequests + 1)
    /\ discarded \in 0..MaxDiscarded

\* ---------------------------------------------------------------- claims

\* C1: every request taken from the mailbox whose handling has ended has
\* exactly one outcome delivered to the broker callback, whatever the order
\* of replies, sender drops and submit failures.
C1_ExactlyOneOutcome ==
    \A s \in Done : Len(outputs[s]) = 1

\* C2: when the reply sender of a submitted request is dropped without a
\* reply, the caller of that request gets an outcome (a transport error).
C2_DroppedReplyReported ==
    \A s \in Seqs : oneshot[s].st = "failed" => outputs[s] # <<>>

\* C3: when try_send to the gateway queue fails, a dispatch-error outcome is
\* delivered for that request and the task of the broker stays alive.
C3_SubmitFailureReported ==
    \A s \in Seqs :
        oneshot[s].st = "rejected"
            => (outputs[s] # <<>> /\ taskPc[Owner(s)] # "dead")

\* C4: get_broker without platform state gives its caller a typed
\* configuration failure and never aborts.
C4_TypedConstructionFailure ==
    \A b \in Brokers :
        platform_state[b] = "None" => brokerState[b] = "config_error"

\* C5: a broker has exactly one mailbox-draining task, and the requests it
\* submits to the gateway queue are, in order, a prefix of the requests that
\* were put in its mailbox.
C5_FifoSingleTask ==
    \A b \in Brokers :
        /\ spawned[b] <= 1
        /\ brokerState[b] = "built" => spawned[b] = 1
        /\ IsPrefix(submittedHist[b], enqueuedHist[b])

\* C5 witness: one broker has submitted two requests.
C5_Witness ==
    \E b \in Brokers : Len(submittedHist[b]) >= 2

\* C6: the envelope delivered for a Success reply carries the call id of the
\* request that was dequeued and the value of the reply, whatever request id
\* the reply carries.
C6_SuccessEnvelopeOriginalId ==
    \A s \in Seqs : \A i \in DOMAIN outputs[s] :
        LET o == outputs[s][i]
            r == oneshot[s].resp
        IN  r.kind = "Success" =>
                (o.body.id = o.request.call_id /\ o.body.result = r.val)

\* C7: the envelope delivered for an Error reply carries the call id of the
\* request that was dequeued and the error message of the reply, whatever
\* request id the reply carries.
C7_ErrorEnvelopeOriginalId ==
    \A s \in Seqs : \A i \in DOMAIN outputs[s] :
        LET o == outputs[s][i]
            r == oneshot[s].resp
        IN  r.kind = "Error" =>
                (o.body.id = o.request.call_id /\ o.body.error = r.val)

\* C8: no two requests that are awaiting a reply at the same time carry the
\* same request id.
C8_UniqueCorrelationIds ==
    \A s1, s2 \in Seqs :
        (s1 # s2 /\ AwaitingReply(s1) /\ AwaitingReply(s2))
            => oneshot[s1].request_id # oneshot[s2].request_id

C11_MailboxBounded ==
    /\ [](Len(chanQueue) <= BROKER_CHANNEL_BUFFER_SIZE)
    /\ [][(/\ chanAttempts' = chanAttempts + 1
           /\ Len(chanQueue) >= BROKER_CHANNEL_BUFFER_SIZE)
          => (chanResult' = "MailboxFull" /\ chanQueue' = chanQueue)]_vars

\* an enqueue was refused on a full mailbox
C11_Witness ==
    /\ chanResult = "MailboxFull"
    /\ Len(chanQueue) = BROKER_CHANNEL_BUFFER_SIZE

\* ---------------------------------------------------------------- client claims
Last(q) == q[Len(q)]
IsServiceCall(frame) == frame.kind = "ServiceCall"
IsHandleRequest(cb) == cb.name = "handle_request"
\* a frame was taken from the stream in this step
Received == Len(inbound') = Len(inbound) + 1

\* the delays the reconnect schedule is said to produce
ClaimedDelays == <<1, 2, 4, 8, 16, 32, 60, 60>>
ClaimedDelay(i) ==
    IF i <= Len(ClaimedDelays) THEN ClaimedDelays[i] ELSE Last(ClaimedDelays)

\* C12: the delays of consecutive connect failures are 1, 2, 4, 8, 16, 32,
\* 60, 60, ... seconds, counted from the start or from the last successful
\* connect, so that the first failure after a successful connect waits 1 s
C12_BackoffSequence ==
    \A i \in 1..Len(delays) : delays[i] = ClaimedDelay(i)

\* eight failures in a row after a successful connect
C12_Witness ==
    /\ connections >= 1
    /\ Len(delays) >= Len(ClaimedDelays)
    /\ delays[1] = 1
    /\ delays[Len(ClaimedDelays)] = 60

\* C13: every reconnect attempt is preceded by a backoff delay: the loop
\* is at its top, after the first attempt, only after a sleep
C13_DelayBeforeReconnect ==
    (clientPc = "connect" /\ cameFrom # "start") => cameFrom = "sleep"

\* C14: when an established connection is lost, on_disconnected() is called
\* before the next successful reconnect: a client connected for the n-th
\* time has made n - 1 calls of on_disconnected
C14_OnDisconnectedBeforeReconnect ==
    clientPc = "connected" => onDisconnected >= connections - 1

\* C15: Register is sent exactly once per successful connect, as the first
\* outbound message of the connection, with the complete handler list of
\* the registration (after a reconnect as well), and no Register is sent
\* at any other moment
C15_RegisterOncePerConnect ==
    /\ [](clientPc = "connected" =>
            /\ outbound # <<>>
            /\ outbound[1] = [kind |-> "Register", request_id |-> 0,
                               firebolt_handlers |->
                                   registration.firebolt_handlers]
            /\ \A i \in 2..Len(outbound) : outbound[i].kind # "Register")
    /\ [][(/\ Len(outbound') > Len(outbound)
           /\ Last(outbound').kind = "Register")
          => (/\ clientPc = "connect"
              /\ clientPc' = "connected"
              /\ connections' = connections + 1
              /\ Len(outbound') = 1)]_vars

\* Register replayed on the second connection, a reply sent after it
C15_Witness ==
    /\ clientPc = "connected"
    /\ connections = 2
    /\ Len(registration.firebolt_handlers) = 2
    /\ Len(outbound) = 2
    /\ outbound[1].kind = "Register"

\* C16: an inbound message that cannot be parsed is logged and skipped: the
\* connection stays open, nothing is sent, no handler callback is made
C16_MalformedSkipped ==
    [][(Received /\ ~Parses(Last(inbound')))
       => (/\ clientPc' = "connected"
           /\ outbound' = outbound
           /\ callbacks' = callbacks
           /\ errorLog' = errorLog + 1)]_vars

\* a service call answered after a message that did not parse
C16_Witness ==
    /\ clientPc = "connected"
    /\ Len(inbound) = 2
    /\ ~Parses(inbound[1])
    /\ IsServiceCall(inbound[2])
    /\ Len(callbacks) = 1
    /\ Len(outbound) = 2

\* C17: for every ServiceCall received, handle_request is called exactly
\* once and exactly one reply is sent, carrying the call's correlation id:
\* Success when the handler returned Ok, Error when it returned Err
C17_OneReplyPerServiceCall ==
    clientPc = "connected" =>
        LET calls == SelectSeq(inbound, IsServiceCall)
            made == SelectSeq(callbacks, IsHandleRequest)
            replies == Tail(outbound)
        IN  /\ Len(made) = Len(calls)
            /\ Len(replies) = Len(calls)
            /\ \A k \in 1..Len(calls) :
                /\ made[k].request_id = calls[k].request_id
                /\ replies[k].request_id = calls[k].request_id
                /\ replies[k].kind = IF made[k].ok
                                     THEN "ServiceCallSuccessResponse"
                                     ELSE "ServiceCallErrorResponse"

\* ---------------------------------------------------------------- registry claims
\* a Register was handled in this step
Registering == regRequest'.kind = "Register" /\ registryVars' # registryVars
MethodsOf(handlers) == {handlers[i] : i \in DOMAIN handlers}

\* C18: the reply to Register is Registered with exactly the handlers that
\* passed the ownership check, in request order, or Error when none did;
\* no handler that was not accepted is echoed
C18_RegisteredEchoesAccepted ==
    [][Registering =>
        LET s == regRequest'.service
            Free(h) == ~OwnedByOther(registry, h, s)
            passed == SelectSeq(regRequest'.firebolt_handlers, Free)
        IN  /\ regReply'.service = s
            /\ IF passed = <<>>
               THEN regReply'.kind = "Error"
               ELSE /\ regReply'.kind = "Registered"
                    /\ regReply'.firebolt_handlers = passed
            /\ \A m \in MethodsOf(regReply'.firebolt_handlers) :
                    [method |-> m, service |-> s] \in registry']_vars

\* a Registered reply that leaves out a refused handler
C18_Witness ==
    /\ regReply.kind = "Registered"
    /\ regRequest.kind = "Register"
    /\ regReply.service = regRequest.service
    /\ Len(regReply.firebolt_handlers) < Len(regRequest.firebolt_handlers)
    /\ MethodsOf(regReply.firebolt_handlers)
           # MethodsOf(regRequest.firebolt_handlers)

\* C19: a method is owned by at most one service; a Register of a method
\* owned by another service is refused (DuplicateRegistration when nothing
\* of the request is accepted) and leaves the owner as it was
C19_SingleOwner ==
    /\ [](\A p, q \in registry : p.method = q.method => p.service = q.service)
    /\ [][Registering =>
            \A m \in MethodsOf(regRequest'.firebolt_handlers) :
                \A p \in registry :
                    (p.method = m /\ p.service # regRequest'.service) =>
                        /\ p \in registry'
                        /\ [method |-> m, service |-> regRequest'.service]
                               \notin registry'
                        /\ m \notin MethodsOf(regReply'.firebolt_handlers)
                        /\ (Len(regRequest'.firebolt_handlers) = 1 =>
                               /\ regReply'.kind = "Error"
                               /\ regReply'.reason = "DuplicateRegistration")
       ]_vars

\* a service owns a method it was refused earlier: the owner unregistered
\* in between
C19_Witness ==
    \E p \in registry :
        /\ p \in regRejected
        /\ regReply.kind = "Registered"
        /\ regReply.service = p.service
        /\ p.method \in MethodsOf(regReply.firebolt_handlers)

\* ---------------------------------------------------------------- provider claims
\* the apps Listening for a capability
ListeningFor(capability) ==
    {a \in Apps : [capability |-> capability, app |-> a] \in listeners}

\* C20: a listener request with listen = true leaves (capability, app)
\* Listening and one with listen = false leaves it Unregistered; a
\* challenge dispatched for a capability with the single listener A is
\* delivered to A, and one dispatched for a capability with no listener
\* returns NoProviderRegistered
C20_ListenerToggling ==
    /\ providerCall.op \in {"on_request", "callback_register_provider"} =>
          (providerCall.app \in ListeningFor(providerCall.capability)
              <=> providerCall.listen)
    /\ providerCall.op = "callback_provider_invoker" =>
          /\ ListeningFor(providerCall.capability) = {} =>
                providerCall.result = "Err(NoProviderRegistered)"
          /\ \A a \in Apps :
                ListeningFor(providerCall.capability) = {a} =>
                    /\ providerCall.result = "Ok"
                    /\ providerEvents[a] # <<>>

\* C21: a listener request is idempotent and leaves the pending challenges
\* alone: after on_request the (capability, app) entry is Listening exactly
\* when listen was true, the same request made again would change nothing,
\* and no PendingChallenge is added, removed or resolved by it
C21_ListenerIdempotent ==
    [][\A capability \in Capabilities, app \in Apps, listen \in BOOLEAN :
          RPCProviderOnRequest(capability, app, listen) =>
              /\ (app \in ListenersOf(listeners', capability)) <=> listen
              /\ register_or_unregister_provider(listeners', capability, app,
                                                 listen) = listeners'
              /\ pending' = pending
              /\ challengeOutcome' = challengeOutcome]_vars

\* an app asks to listen while a challenge is pending
C21_Witness ==
    /\ providerCall.op = "on_request"
    /\ providerCall.listen
    /\ pending # {}
    /\ providerCall.app \in ListenersOf(listeners, providerCall.capability)

\* C22: a challenge dispatch succeeds exactly when one app is Listening for
\* the capability, fails with NoProviderRegistered when none is and with
\* AmbiguousProvider when several are; a failed dispatch creates no
\* PendingChallenge and delivers no event
C22_DispatchNeedsOneListener ==
    providerCall.op = "callback_provider_invoker" =>
        LET n == Cardinality(ListeningFor(providerCall.capability))
        IN  /\ n = 1 => providerCall.result = "Ok"
            /\ n = 0 => providerCall.result = "Err(NoProviderRegistered)"
            /\ n > 1 => providerCall.result = "Err(AmbiguousProvider)"
            /\ providerCall.result # "Ok" =>
                  /\ pending = {}
                  /\ \A a \in Apps : providerEvents[a] = <<>>

\* a provider response handed in by either response entry point
ResponseStep ==
    \/ CallbackResponse
    \/ \E capability \in Capabilities : RPCProviderResponse(capability)

\* the payload the entry point of the last call wraps a result in
MappedResult(call) ==
    [variant |-> IF call.op = "callback_response" THEN "GenericResponse"
                 ELSE "ChallengeResponse",
     value |-> "v"]

\* C23: a provider response whose correlation id has a PendingChallenge
\* resolves the caller's reply channel with the mapped result and removes
\* that PendingChallenge; a response for any other id is dropped; either way
\* every listener and every other PendingChallenge stays as it was
C23_ResponseResolvesOrDiscards ==
    [][(ResponseStep /\ providerCall'.result = "Ok(None)") =>
          LET id == providerCall'.correlation_id
          IN  /\ listeners' = listeners
              /\ providerEvents' = providerEvents
              /\ \A c \in pending : c.id # id => c \in pending'
              /\ \A i \in ChallengeIds :
                    i # id => challengeOutcome'[i] = challengeOutcome[i]
              /\ IF \E c \in pending : c.id = id
                 THEN /\ \A c \in pending' : c.id # id
                      /\ pending' \subseteq pending
                      /\ challengeOutcome'[id] =
                            Append(challengeOutcome[id],
                                   MappedResult(providerCall'))
                 ELSE /\ pending' = pending
                      /\ challengeOutcome'[id] = challengeOutcome[id]]_vars

\* the second challenge is resolved by a response while the first is still
\* pending
C23_Witness ==
    /\ providerCall.op = "callback_response"
    /\ providerCall.result = "Ok(None)"
    /\ providerCall.correlation_id = 2
    /\ challengeOutcome[2] = <<[variant |-> "GenericResponse", value |-> "v"]>>
    /\ \E c \in pending : c.id = 1
    /\ listeners # {}

\* C24: a PendingChallenge is not left pending once its deadline of
\* DEFAULT_PROVIDER_RESPONSE_TIMEOUT_MS has elapsed: by then it has been
\* resolved with ChallengeTimeout and removed
C24_TimeoutResolves ==
    \A c \in pending : c.age <= DEFAULT_PROVIDER_RESPONSE_TIMEOUT_MS

\* C25: a focus request succeeds only for the app that is the listener of
\* the capability, and the handler answers NoProviderRegistered when the
\* requesting app is not
C25_FocusReportsFailure ==
    providerCall.op \in {"focus", "callback_focus"} =>
        IF ListeningFor(providerCall.capability) = {providerCall.app}
        THEN providerCall.result = "Ok(None)"
        ELSE providerCall.result = "Err(NoProviderRegistered)"

\* C26: register_methods returns the number of methods it registered: a
\* relation set that declares any of provided_by, capability, provides_to,
\* error_for, allow_focus_for or response_for counts 1, one that declares
\* none counts 0
C26_RegisterMethodsCounts ==
    registrarCall.op = "register_methods" =>
        registrarResult = IF registrarCall.args[1] = {} THEN 0 ELSE 1

\* C27: register_method returns true for the first registration of a name
\* on an RPC module and false for a later one, whatever the two method
\* types, and the first registration stays
C27_DuplicateRejected ==
    [][\A method_name \in MethodNames, method_type \in MethodTypes :
          RegisterMethod(method_name, method_type) =>
              /\ registrarResult' = (rpcModule[method_name] = "none")
              /\ \A n \in MethodNames :
                    rpcModule[n] # "none" => rpcModule'[n] = rpcModule[n]
              /\ rpcModule'[method_name] # "none"
              /\ rpcModule[method_name] = "none" =>
                    rpcModule'[method_name] = method_type]_vars

\* a name registered as an event emitter is refused as a provider invoker
C27_Witness ==
    /\ registrarCall.op = "register_method"
    /\ registrarCall.args[2] = "ProviderInvoker"
    /\ registrarResult = FALSE
    /\ rpcModule[registrarCall.args[1]] = "AppEventEmitter"

\* C28: get_provider_response returns, when the parameter after the call
\* context parses as the requested payload type, a ProviderResponse with
\* that parameter's correlation id and its result or error in the variant
\* of the payload type, and None when it does not parse or the type is not
\* supported
C28_ProviderResponseParsed ==
    registrarCall.op = "get_provider_response" =>
        LET payload_type == registrarCall.args[1]
            param == registrarCall.args[2]
        IN  IF payload_type \in param.parses
            THEN /\ registrarResult.correlation_id = param.correlation_id
                 /\ registrarResult.result.variant = payload_type
                 /\ param.value # "absent" =>
                       registrarResult.result.value = param.value
            ELSE registrarResult = NoProviderResponse

\* the GenericError of the second challenge is returned
C28_Witness ==
    /\ registrarCall.op = "get_provider_response"
    /\ registrarCall.args[1] = "GenericError"
    /\ registrarResult.correlation_id = 2
    /\ registrarResult.result = [variant |-> "GenericError", value |-> "w"]

\* C29: the task holds the services-gateway lock at no suspension point:
\* while the request of any task is in flight (submitted, reply awaited) the
\* lock is free, so another task can take it
C29_LockNotHeldInFlight ==
    \A b \in Brokers : taskPc[b] = "await" => servicesLock = 0

\* two tasks have their requests in flight at once
C29_Witness ==
    /\ \A b \in Brokers : taskPc[b] = "await"
    /\ servicesLock = 0

\* C30: when the outcome cannot be delivered because the caller has given
\* up, the task logs the failure and goes on to its next mailbox request;
\* nothing is delivered, nothing else changes and the task does not stop
C30_DeliveryFailureTolerated ==
    [][\A b \in Brokers :
          (TaskReceiveResponse(b) /\ CallbackFails(taskReq[b])) =>
              /\ taskPc'[b] = "recv"
              /\ deliveryErrors' = deliveryErrors + 1
              /\ outputs' = outputs
              /\ mailbox' = mailbox]_vars

\* after a delivery failed the task has taken its next request
C30_Witness ==
    /\ deliveryErrors > 0
    /\ \E b \in Brokers :
          /\ taskPc[b] = "lock"
          /\ taskReq[b].seq \notin callerGone

\* C31: converting a ServiceRoutingResponse to a JSON-RPC response keeps the
\* request id: Success gives jsonrpc "2.0", the response's request id, the
\* value as result and no error; Error gives an error with the response's
\* request id and its error message
C31_ConversionKeepsId ==
    \A c \in conversions :
        /\ c.converted.jsonrpc = "2.0"
        /\ c.converted.id = c.response.request_id
        /\ c.response.kind = "Success" =>
              /\ c.converted.result = c.response.val
              /\ c.converted.error = 0
        /\ c.response.kind = "Error" =>
              c.converted.error = c.response.val

\* the requests of broker b that were submitted and whose reply channel the
\* task has not yet seen resolved or dropped
Outstanding(b) ==
    {i \in 1..Len(submittedHist[b]) :
        oneshot[submittedHist[b][i]].st \in {"open", "sent", "dropped"}}

\* the requests of broker b that arrived in its mailbox after request n
ArrivedAfter(b, n) ==
    LET pos == CHOOSE i \in 1..Len(enqueuedHist[b]) : enqueuedHist[b][i] = n
    IN  SubSeq(enqueuedHist[b], pos + 1, Len(enqueuedHist[b]))

\* C32: a broker has at most one ServiceRoutingRequest outstanding, the one
\* its task is awaiting, and the task takes nothing from the mailbox while
\* that request is outstanding: every request of the broker that arrived
\* after it is still queued
C32_OneOutstandingRequest ==
    \A b \in Brokers :
        /\ Cardinality(Outstanding(b)) <= 1
        /\ Outstanding(b) # {} =>
              /\ taskPc[b] = "await"
              /\ Last(submittedHist[b]) = taskReq[b].seq
              /\ [i \in 1..Len(mailbox[b]) |-> mailbox[b][i].seq]
                    = ArrivedAfter(b, taskReq[b].seq)

\* a request waits in the mailbox while the reply of an earlier one of the
\* same broker has not arrived
C32_Witness ==
    \E b \in Brokers :
        /\ taskPc[b] = "await"
        /\ oneshot[taskReq[b].seq].st = "open"
        /\ mailbox[b] # <<>>
        /\ Head(mailbox[b]).seq > taskReq[b].seq

\* C33: connect never returns once the URL has parsed: the client is always
\* at the connect attempt or in the message loop, and after every connect
\* failure and every disconnect connect attempts follow until one succeeds
\* (as far as the model counts failures)
C33_ConnectNeverReturns ==
    /\ [](clientPc \in {"new", "connect", "connected"})
    /\ (/\ clientPc = "connect"
        /\ cameFrom \in {"sleep", "disconnect"}
        /\ connections < MaxConnects)
           ~> (clientPc = "connected" \/ Len(delays) = MaxFailures)

\* a connect attempt failed after an earlier connection was lost
C33_Witness ==
    /\ clientPc = "connect"
    /\ cameFrom = "sleep"
    /\ connections >= 1
    /\ delays # <<>>

IsRegistered(frame) == frame.kind = "Registered"
IsOnConnected(cb) == cb.name = "on_connected"

\* C34: within a connection on_connected is called once for each Registered
\* message received and at no other time: a step calls it exactly when the
\* frame it took is Registered, so not when the connection is established
\* and not for an Error from the gateway
C34_OnConnectedPerRegistered ==
    /\ [](Len(SelectSeq(callbacks, IsOnConnected))
             = Len(SelectSeq(inbound, IsRegistered)))
    /\ [][SelectSeq(callbacks', IsOnConnected)
             # SelectSeq(callbacks, IsOnConnected) =>
                \/ /\ Received
                   /\ IsRegistered(Last(inbound'))
                   /\ Len(SelectSeq(callbacks', IsOnConnected))
                         = Len(SelectSeq(callbacks, IsOnConnected)) + 1
                \/ callbacks' = <<>>]_vars

\* the gateway refused the registration with Error and then sent Registered:
\* on_connected was called once
C34_Witness ==
    /\ clientPc = "connected"
    /\ Len(inbound) = 2
    /\ inbound[1].kind = "Error"
    /\ IsRegistered(inbound[2])
    /\ Len(SelectSeq(callbacks, IsOnConnected)) = 1

\* C35: the message loop ends only when the inbound stream ends: a receive
\* error is logged and the loop reads on, and the client leaves the loop for
\* the connect attempt by no step other than the end of the stream
C35_ReceiveErrorKeepsReading ==
    [][/\ (Received /\ Last(inbound').kind = "StreamError") =>
              /\ clientPc' = "connected"
              /\ errorLog' = errorLog + 1
              /\ outbound' = outbound
              /\ callbacks' = callbacks
              /\ UNCHANGED <<connections, backoff, delays, cameFrom>>
       /\ (clientPc = "connected" /\ clientPc' # "connected") =>
              ClientDisconnect]_vars

\* a message was handled after a receive error on the same connection
C35_Witness ==
    /\ clientPc = "connected"
    /\ Len(inbound) = 2
    /\ inbound[1].kind = "StreamError"
    /\ IsServiceCall(inbound[2])
    /\ Len(outbound) = 2

\* the messages the client has no action for
OtherKinds == {"Register", "Error", "Unregister",
               "ServiceCallSuccessResponse", "ServiceCallErrorResponse"}

\* C36: on receiving Register, Error, Unregister, ServiceCallSuccessResponse
\* or ServiceCallErrorResponse the client sends nothing and calls no handler
\* callback; the connection stays open, on_disconnected is not called and no
\* new Register is sent
C36_OtherMessagesIgnored ==
    [][(Received /\ Last(inbound').kind \in OtherKinds) =>
          /\ outbound' = outbound
          /\ callbacks' = callbacks
          /\ clientPc' = "connected"
          /\ onDisconnected' = onDisconnected
          /\ connections' = connections
          /\ errorLog' = errorLog]_vars

\* a service call was answered after an Unregister from the gateway
C36_Witness ==
    /\ clientPc = "connected"
    /\ Len(inbound) = 2
    /\ inbound[1].kind = "Unregister"
    /\ IsServiceCall(inbound[2])
    /\ Len(outbound) = 2
    /\ onDisconnected = 0

\* what one call of provider_response with the parameter's id and wrapped
\* value leaves of the pending challenges and their outcomes
ForwardedOnce(id, variant) ==
    provider_response(pending, challengeOutcome,
        [correlation_id |-> id,
         result |-> [variant |-> variant, value |-> "v"]])

\* C37: callback_response and callback_error hand the response to
\* provider_response once when the parameters parse and answer Ok; when the
\* parameters do not parse they answer an error, provider_response is not
\* called and every pending challenge stays as it was
C37_CallbacksForwardWhenParsed ==
    [][/\ \A param \in CallbackParams("GenericResponse") :
             CallbackResponseWith(param) =>
                IF "GenericResponse" \in param.parses
                THEN /\ providerCall'.result = "Ok(None)"
                     /\ <<pending', challengeOutcome'>> =
                           LET r == ForwardedOnce(param.correlation_id,
                                                  "GenericResponse")
                           IN  <<r.pending, r.outcome>>
                ELSE /\ providerCall'.result # "Ok(None)"
                     /\ pending' = pending
                     /\ challengeOutcome' = challengeOutcome
       /\ \A param \in CallbackParams("GenericError") :
             CallbackErrorWith(param) =>
                IF "GenericError" \in param.parses
                THEN /\ providerCall'.result = "Ok(None)"
                     /\ <<pending', challengeOutcome'>> =
                           LET r == ForwardedOnce(param.correlation_id,
                                                  "GenericError")
                           IN  <<r.pending, r.outcome>>
                ELSE /\ providerCall'.result # "Ok(None)"
                     /\ pending' = pending
                     /\ challengeOutcome' = challengeOutcome]_vars

\* callback_error was given parameters that do not parse for a challenge
\* that is pending, after another challenge was resolved with an error
C37_Witness ==
    /\ providerCall.op = "callback_error"
    /\ providerCall.result = "Err(Missing provider attributes)"
    /\ \E c \in pending : c.id = providerCall.correlation_id
    /\ \E i \in ChallengeIds :
          challengeOutcome[i] =
              <<[variant |-> "GenericError", value |-> "v"]>>

\* a response or an error handed in through RPCProvider
RPCProviderStep(capability) ==
    RPCProviderResponse(capability) \/ RPCProviderError(capability)

\* C38: RPCProvider::response and RPCProvider::error hand the provider's
\* answer to provider_response only when the provider's capability is the
\* acknowledge-challenge capability; for any other capability they answer
\* an error and no pending challenge is resolved
C38_OnlyAckChallengeForwards ==
    [][\A capability \in Capabilities :
          RPCProviderStep(capability) =>
              IF capability = ACK_CHALLENGE_CAPABILITY
              THEN /\ providerCall'.result = "Ok(None)"
                   /\ <<pending', challengeOutcome'>> =
                         LET r == ForwardedOnce(providerCall'.correlation_id,
                                    IF providerCall'.op = "response"
                                    THEN "ChallengeResponse"
                                    ELSE "ChallengeError")
                         IN  <<r.pending, r.outcome>>
              ELSE /\ providerCall'.result \in
                         {"Err(No response payload defined)",
                          "Err(No error response payload defined)"}
                   /\ pending' = pending
                   /\ challengeOutcome' = challengeOutcome]_vars

\* a provider of another capability answered a pending challenge and was
\* refused
C38_Witness ==
    /\ providerCall.op = "response"
    /\ providerCall.capability # ACK_CHALLENGE_CAPABILITY
    /\ providerCall.result = "Err(No response payload defined)"
    /\ \E c \in pending : c.id = providerCall.correlation_id

\* the entries the calls of add_handler made so far ask for, in call order
ExpectedHandlers ==
    [i \in 1..Len(builderCalls) |->
        [firebolt_method |-> builderCalls[i].alias,
         jq_rule |-> [alias |-> builderCalls[i].alias,
                      rule |-> builderCalls[i].rule]]]

\* C39: the builder keeps its handlers in insertion order: after any calls
\* of add_handler with a JqRule or a StaticRule, build returns one entry per
\* call in call order, each with the rule's alias as firebolt_method and a
\* rule of the same alias and expression; add_handler with Handler::None
\* aborts and adds no entry
C39_BuilderKeepsInsertionOrder ==
    [][/\ Build => built' = ExpectedHandlers
       /\ \A h \in Handlers :
             AddHandler(h) =>
                IF h.kind = "None"
                THEN /\ builderState' = "aborted"
                     /\ builderHandlers' = builderHandlers
                ELSE /\ builderState' = "ok"
                     /\ builderHandlers' = ExpectedHandlers']_vars

\* build returned two entries for a JqRule and then a StaticRule of another
\* method, in that order
C39_Witness ==
    /\ Len(built) = 2
    /\ built = builderHandlers
    /\ builderCalls[1].kind = "JqRule"
    /\ builderCalls[2].kind = "StaticRule"
    /\ built[1].firebolt_method = builderCalls[1].alias
    /\ built[2].firebolt_method = builderCalls[2].alias
    /\ built[1].firebolt_method # built[2].firebolt_method

====
